---- MODULE Spec2Model ----
(***************************************************************************)
(* invenio-moodle: insert_moodle_into_db (src/invenio_moodle/utils.py).    *)
(* One run of insert_moodle_into_db is a sequence of steps: validation,    *)
(* cache_files, the fetch_else_create loop, linking, the transform         *)
(* dispatch, the draft updates and the publish scope.  The record store    *)
(* and its identifier registry (invenio) are collaborators: they are       *)
(* modelled by the Store* / Registry* operators.                           *)
(***************************************************************************)
EXTENDS Naturals, Sequences, FiniteSets, TLC

VARIABLES
    store,              \* the record store: pid (1..Len) -> entity
    run,                \* number of calls of insert_moodle_into_db so far
    pc,                 \* position of the current call
    outcome,            \* how the current call ended ("" while it runs)
    moodle_data,        \* argument: the batch document
    filepaths_by_url,   \* argument: the local-path override (or None)
    content,            \* environment: the bytes each url resolves to in this run
    file_cache,         \* cache_files' result so far: url -> FileCacheInfo
    idx,                \* cache_files: position of the download loop (1-based)
    pos,                \* resolve loop: [i, j, part]
    task_logs,          \* dict[Key, TaskLog] in insertion order
    calls,              \* the collaborator calls issued by the current call
    fec_log,            \* every fetch_else_create call of this run and what it did
    created,            \* pid -> the course, unit or file content it was created for
    store0,             \* the store when the current call started
    prev,               \* arguments, environment and outcome of the previous call
    temp_dir,           \* the TemporaryDirectory: None, or [files |-> the files in it]
    call,               \* a function called on its own: its name and arguments
    returned            \* what that call returned

vars == <<store, run, pc, outcome, moodle_data, filepaths_by_url, content,
          file_cache, idx, pos, task_logs, calls, fec_log, created, store0, prev,
          temp_dir, call, returned>>

(***************************************************************************)
(* Bounds and input domains.  The batch is drawn once and every call is    *)
(* made on it; the override and the bytes behind each url are drawn per    *)
(* call.                                                                   *)
(***************************************************************************)
MaxRuns == 2
MaxFiles == 2
MaxCourses == 1

Urls == {"https://moodle/f1", "https://moodle/f2"}
Bytes == {"a", "b"}
CourseIds == {"101"}
Years == {"2022"}
Semesters == {"WS", "SS"}
CourseNames == {"Algebra"}
AddressTable == <<"0x7f3a10", "0x7f3a58", "0x7f3aa0", "0x7f3ae8", "0x7f3b30",
                  "0x7f3b78", "0x7f3bc0", "0x7f3c08", "0x7f3c50">>
\* as many addresses as hash objects are made over all calls: an object of a
\* later call may live where one of an earlier call lived, or anywhere else
Addresses == {AddressTable[n] : n \in 1..(MaxRuns * MaxFiles)}

None == [none |-> TRUE]

SeqsUpTo(S, n) == UNION {[1..k -> S] : k \in 0..n}

CourseJsons == [courseid : CourseIds, coursename : CourseNames]
FileJsons == [fileurl : Urls, year : Years, semester : Semesters,
              courses : SeqsUpTo(CourseJsons, MaxCourses)]
\* a document that passes MoodleSchema: the flattened list of its file jsons
ValidDocs == [valid : {TRUE}, files : SeqsUpTo(FileJsons, MaxFiles)]
InvalidDoc == [valid |-> FALSE, files |-> <<>>]
\* documents MoodleSchema rejects: the file records they would flatten to
InvalidDocs == {InvalidDoc} \cup [valid : {FALSE}, files : [1..1 -> FileJsons]]

(***************************************************************************)
(* Keys                                                                    *)
(***************************************************************************)
\* hashlib: the digest of the bytes, as hexdigest() prints it
HexDigest(bytes) ==
    IF bytes = "a" THEN "0cc175b9c0f1b6a831c399e269772661"
    ELSE "92eb5ffee6ae2fec3ad71c777531578f"

\* a str holding a hex digest
HashStr(bytes) == [kind |-> "str", digest |-> HexDigest(bytes), addr |-> ""]
\* a hashlib HASH object living at addr, updated with bytes
HashObject(addr, bytes) == [kind |-> "HASH", digest |-> HexDigest(bytes), addr |-> addr]

\* format() of the value held in hash_md5
Format(h) ==
    IF h.kind = "str" THEN h.digest
    ELSE "<md5 _hashlib.HASH object @ " \o h.addr \o ">"

FileKey(hash_md5, url) == [cls |-> "FileKey", hash_md5 |-> hash_md5, url |-> url]
UnitKey(courseid, year, semester) ==
    [cls |-> "UnitKey", courseid |-> courseid, year |-> year, semester |-> semester]
CourseKey(courseid) == [cls |-> "CourseKey", courseid |-> courseid]

UnitKey_from_json(moodle_file_json, moodle_course_json) ==
    UnitKey(moodle_course_json.courseid, moodle_file_json.year, moodle_file_json.semester)
CourseKey_from_json(moodle_course_json) == CourseKey(moodle_course_json.courseid)

to_string_key(key) ==
    CASE key.cls = "FileKey" -> "FileKey(hash_md5=" \o Format(key.hash_md5) \o ")"
      [] key.cls = "UnitKey" ->
            "UnitKey(courseid=" \o key.courseid \o ", year=" \o key.year
                \o ", semester=" \o key.semester \o ")"
      [] key.cls = "CourseKey" -> "CourseKey(courseid=" \o key.courseid \o ")"

(***************************************************************************)
(* The record store and its identifier registry (collaborators)            *)
(***************************************************************************)
\* PersistentIdentifier.get(pid_type="moodle", ...) then get_by_object:
\* the pid registered for the key string, 0 when PIDDoesNotExistError
RegistryResolve(st, database_key) ==
    IF \E p \in 1..Len(st) : st[p].moodle = database_key
    THEN CHOOSE p \in 1..Len(st) : st[p].moodle = database_key
    ELSE 0

\* service.create: a new entity held as an unpublished draft, registered under
\* the moodle identifier its document carries
StoreCreate(st, data) ==
    Append(st, [moodle |-> data.pids, draft |-> data, published |-> None])

\* service.read(...).to_dict(): the entity's latest representation
StoreRead(st, pid) ==
    IF st[pid].draft # None THEN st[pid].draft ELSE st[pid].published

\* service.edit: ensure a draft exists
StoreEdit(st, pid) ==
    IF st[pid].draft # None THEN st
    ELSE [st EXCEPT ![pid].draft = st[pid].published]

\* service.update_draft
StoreUpdateDraft(st, pid, data) == [st EXCEPT ![pid].draft = data]

\* service.publish: the draft becomes the published representation
StorePublish(st, pid) ==
    [st EXCEPT ![pid].published = st[pid].draft, ![pid].draft = None]

(***************************************************************************)
(* LOMMetadata documents                                                   *)
(***************************************************************************)
\* LOMMetadata.create(resource_type=..., pids=...).json
LOMCreate(resource_type, database_key) ==
    [resource_type |-> resource_type, pids |-> database_key, identifiers |-> {},
     title |-> "", relations |-> {}]

append_identifier(json, value, catalog) ==
    [json EXCEPT !.identifiers = @ \cup {<<catalog, value>>}]
set_title(json, title) == [json EXCEPT !.title = title]
append_relation(json, pid, kind) == [json EXCEPT !.relations = @ \cup {<<kind, pid>>}]

TaskLog(pid, previous_json, json) ==
    [pid |-> pid, previous_json |-> previous_json, json |-> json,
     moodle_file_json |-> None, moodle_course_json |-> None]

(***************************************************************************)
(* fetch_else_create                                                       *)
(***************************************************************************)
\* fetch_else_create keeping the created draft as the previous document too
fetch_else_create_NoNullPrevious(st, database_key, resource_type) ==
    LET moodle_pid == RegistryResolve(st, database_key) IN
    IF moodle_pid = 0
    THEN LET metadata == append_identifier(LOMCreate(resource_type, database_key),
                                           database_key, "moodle")
             st2 == StoreCreate(st, metadata)
         IN  [store |-> st2,
              task |-> TaskLog(Len(st2), st2[Len(st2)].draft, st2[Len(st2)].draft),
              ops |-> <<[op |-> "create", pid |-> Len(st2)]>>]
    ELSE LET previous_json == StoreRead(st, moodle_pid) IN
         [store |-> st,
          task |-> TaskLog(moodle_pid, previous_json, previous_json),
          ops |-> <<[op |-> "read", pid |-> moodle_pid]>>]

fetch_else_create(st, database_key, resource_type) ==
    LET moodle_pid == RegistryResolve(st, database_key) IN
    IF moodle_pid = 0
    THEN LET metadata == append_identifier(LOMCreate(resource_type, database_key),
                                           database_key, "moodle")
             st2 == StoreCreate(st, metadata)
         IN  [store |-> st2,
              task |-> TaskLog(Len(st2), None, st2[Len(st2)].draft),
              ops |-> <<[op |-> "create", pid |-> Len(st2)]>>]
    ELSE LET previous_json == StoreRead(st, moodle_pid) IN
         [store |-> st,
          task |-> TaskLog(moodle_pid, previous_json, previous_json),
          ops |-> <<[op |-> "read", pid |-> moodle_pid]>>]

(***************************************************************************)
(* Helpers on the run's state                                              *)
(***************************************************************************)
moodle_file_jsons == moodle_data.files
urls == [k \in 1..Len(moodle_file_jsons) |-> moodle_file_jsons[k].fileurl]

\* dict assignment d[key] = value: a present key keeps its place
DictSet(d, key, value) ==
    IF \E n \in 1..Len(d) : d[n].key = key
    THEN [n \in 1..Len(d) |-> IF d[n].key = key THEN [key |-> key, item |-> value] ELSE d[n]]
    ELSE Append(d, [key |-> key, item |-> value])
DictHas(d, key) == \E n \in 1..Len(d) : d[n].key = key

CacheSet(fc, url, info) ==
    [u \in DOMAIN fc \cup {url} |-> IF u = url THEN info ELSE fc[u]]

\* addresses of the hash objects the cache still holds
LiveAddresses(fc) == {fc[u].hash_md5.addr : u \in {v \in DOMAIN fc : fc[v].hash_md5.kind = "HASH"}}

\* the addresses some registered key string or some cache names
KnownAddresses(st, caches) ==
    {a \in Addresses :
        \/ RegistryResolve(st, to_string_key(FileKey(HashObject(a, "a"), ""))) # 0
        \/ \E fc \in caches : a \in LiveAddresses(fc)}
\* hashlib.md5(): where the new object may live.  Any address no live object
\* has; the addresses not known yet are alike, the first of them stands for all
NewAddresses(st, caches, fc) ==
    LET known == KnownAddresses(st, caches \cup {fc})
        fresh == {n \in 1..Len(AddressTable) : AddressTable[n] \in Addresses \ known}
    IN  (known \ LiveAddresses(fc))
        \cup {AddressTable[n] : n \in {m \in fresh : \A k \in fresh : m <= k}}

IdxStr(n) == CASE n = 0 -> "0" [] n = 1 -> "1" [] n = 2 -> "2" [] n = 3 -> "3" [] OTHER -> "4"

FirstPos == [i |-> 1, j |-> 0, part |-> "file"]
\* the position after the file step / the course step of record i
AfterFile(i) ==
    IF Len(moodle_file_jsons[i].courses) >= 1 THEN [i |-> i, j |-> 1, part |-> "unit"]
    ELSE [i |-> i + 1, j |-> 0, part |-> "file"]
AfterCourse(i, j) ==
    IF j < Len(moodle_file_jsons[i].courses) THEN [i |-> i, j |-> j + 1, part |-> "unit"]
    ELSE [i |-> i + 1, j |-> 0, part |-> "file"]
\* the loop over moodle_file_jsons ends, and with it the TemporaryDirectory block
\* (see DirAt)
PcAt(p) == IF p.i > Len(moodle_file_jsons) THEN "link" ELSE "resolve"

Ended == pc \in {"done", "failed"}

(***************************************************************************)
(* Init and the call                                                       *)
(***************************************************************************)
Init ==
    /\ store = <<>>
    /\ run = 0
    /\ pc = "idle"
    /\ outcome = ""
    /\ moodle_data \in ValidDocs \cup InvalidDocs
    /\ filepaths_by_url = None
    /\ content = [u \in Urls |-> "a"]
    /\ file_cache = <<>>
    /\ idx = 1
    /\ pos = FirstPos
    /\ task_logs = <<>>
    /\ calls = <<>>
    /\ fec_log = <<>>
    /\ created = <<>>
    /\ store0 = <<>>
    /\ prev = None
    /\ temp_dir = None
    /\ call = None
    /\ returned = None

DocUrls(d) == {d.files[k].fileurl : k \in 1..Len(d.files)}

\* insert_moodle_into_db(moodle_data, filepaths_by_url) is called
StartRun ==
    /\ pc \in {"idle", "done", "failed"}
    /\ run < MaxRuns
    /\ \E o \in {None} \cup {[none |-> FALSE, urls |-> S] : S \in SUBSET DocUrls(moodle_data)} :
         \E c \in [Urls -> Bytes] :
            /\ \A u \in Urls \ DocUrls(moodle_data) : c[u] = "a"
            /\ filepaths_by_url' = o
            /\ content' = c
    /\ UNCHANGED moodle_data
    /\ run' = run + 1
    /\ pc' = "validate"
    /\ outcome' = ""
    /\ file_cache' = <<>>
    /\ idx' = 1
    /\ pos' = FirstPos
    /\ task_logs' = <<>>
    /\ calls' = <<>>
    /\ fec_log' = <<>>
    /\ store0' = store
    /\ prev' = IF run = 0 THEN None
               ELSE [none |-> FALSE,
                     filepaths_by_url |-> filepaths_by_url, content |-> content,
                     file_cache |-> file_cache, outcome |-> outcome]
    /\ UNCHANGED <<store, created, temp_dir, call, returned>>

\* MoodleSchema().load(moodle_data): returns (TRUE) or raises ValidationError
MoodleSchema_load_Unchecked(data) == TRUE

MoodleSchema_load(data) == data.valid

\* "validate input"
Validate ==
    /\ pc = "validate"
    /\ IF MoodleSchema_load(moodle_data)
       THEN pc' = "cache_provided" /\ UNCHANGED outcome
       ELSE pc' = "failed" /\ outcome' = "ValidationError"
    /\ UNCHANGED <<store, run, moodle_data, filepaths_by_url, content, file_cache, idx,
                   pos, task_logs, calls, fec_log, created, store0, prev,
                   temp_dir, call, returned>>

(***************************************************************************)
(* cache_files                                                             *)
(***************************************************************************)
\* TemporaryDirectory(): a new, empty directory
TemporaryDirectory == [files |-> {}]
\* leaving the "with TemporaryDirectory()" block without removing anything
cleanup_Leak(dir) == dir

\* leaving the "with TemporaryDirectory()" block, by its end or by an
\* exception: the directory and the files in it are removed
cleanup(dir) == None

\* the block is entered; the loop over provided_filepaths_by_url.items()
CacheProvided ==
    /\ pc = "cache_provided"
    /\ IF filepaths_by_url = None
       THEN /\ pc' = "failed"
            /\ outcome' = "AttributeError"
            /\ temp_dir' = cleanup(TemporaryDirectory)
            /\ UNCHANGED file_cache
       ELSE /\ file_cache' = [u \in filepaths_by_url.urls |->
                                [hash_md5 |-> HashStr(content[u]), path |-> "/local/" \o u]]
            /\ pc' = "cache_download"
            /\ temp_dir' = TemporaryDirectory
            /\ UNCHANGED outcome
    /\ idx' = 1
    /\ UNCHANGED <<store, run, moodle_data, filepaths_by_url, content,
                   pos, task_logs, calls, fec_log, created, store0, prev, call, returned>>

\* the FileCacheInfo cache_files stores for a downloaded url
DownloadedInfo(hash_, filepath) == [hash_md5 |-> hash_, path |-> filepath]

\* one iteration of the loop over enumerate(urls)
CacheDownload ==
    /\ pc = "cache_download"
    /\ idx <= Len(urls)
    /\ LET url == urls[idx] IN
       IF url \in filepaths_by_url.urls
       THEN /\ idx' = idx + 1
            /\ UNCHANGED <<file_cache, pc, outcome, calls, temp_dir>>
       ELSE \E ok \in BOOLEAN :
              IF ok
              THEN \E addr \in NewAddresses(store,
                                IF prev = None THEN {} ELSE {prev.file_cache}, file_cache) :
                     /\ file_cache' = CacheSet(file_cache, url,
                            DownloadedInfo(HashObject(addr, content[url]),
                                           "/tmp/" \o IdxStr(idx - 1)))
                     /\ idx' = idx + 1
                     /\ calls' = Append(calls, [op |-> "get", pid |-> 0])
                     /\ temp_dir' = [files |-> temp_dir.files \cup {"/tmp/" \o IdxStr(idx - 1)}]
                     /\ UNCHANGED <<pc, outcome>>
              ELSE /\ pc' = "failed"
                   /\ outcome' = "RequestException"
                   /\ calls' = Append(calls, [op |-> "get", pid |-> 0])
                   /\ temp_dir' = cleanup(temp_dir)
                   /\ UNCHANGED <<file_cache, idx>>
    /\ UNCHANGED <<store, run, moodle_data, filepaths_by_url, content,
                   pos, task_logs, fec_log, created, store0, prev, call, returned>>

\* the loop over enumerate(urls) leaving off after its first iteration
LoopDone_AfterFirst(i, us) == i > Len(us) \/ i > 1

\* the loop over enumerate(urls) has run through every url
LoopDone(i, us) == i > Len(us)

\* the directory when the resolve loop stands at p: its end ends the block
DirAt(p, dir) == IF PcAt(p) = "link" THEN cleanup(dir) ELSE dir

\* cache_files returns
CacheReturn ==
    /\ pc = "cache_download"
    /\ LoopDone(idx, urls)
    /\ pc' = PcAt(FirstPos)
    /\ pos' = FirstPos
    /\ temp_dir' = DirAt(FirstPos, temp_dir)
    /\ UNCHANGED <<store, run, outcome, moodle_data, filepaths_by_url, content, file_cache,
                   idx, task_logs, calls, fec_log, created, store0, prev, call, returned>>

(***************************************************************************)
(* The resolve loop of insert_moodle_into_db                               *)
(***************************************************************************)
\* the course, the unit or the file content a Key stands for
EntityOf(key) ==
    CASE key.cls = "FileKey" -> <<"file", key.hash_md5.digest>>
      [] key.cls = "UnitKey" -> <<"unit", key.courseid, key.year, key.semester>>
      [] key.cls = "CourseKey" -> <<"course", key.courseid>>

\* what a fetch_else_create call leaves behind: the store, the calls it issued
FecEffect(key, r) ==
    /\ store' = r.store
    /\ calls' = calls \o r.ops
    /\ fec_log' = Append(fec_log,
            [key |-> key, database_key |-> to_string_key(key),
             present |-> RegistryResolve(store, to_string_key(key)) # 0,
             ops |-> r.ops, task |-> r.task])
    /\ created' = IF Len(r.store) > Len(store) THEN Append(created, EntityOf(key))
                  ELSE created

\* a registry or store call of fetch_else_create raises
FecFails ==
    /\ pc' = "failed"
    /\ outcome' = "StoreError"
    /\ calls' = Append(calls, [op |-> "failed", pid |-> 0])
    /\ temp_dir' = cleanup(temp_dir)
    /\ UNCHANGED <<store, fec_log, created, task_logs, pos>>

\* the file_key of record i and the assignment to task_logs[file_key]
FileKeyOf(moodle_file_json) ==
    FileKey(file_cache[moodle_file_json.fileurl].hash_md5, moodle_file_json.fileurl)

FileStep(tasks, st, moodle_file_json) ==
    LET file_key == FileKeyOf(moodle_file_json)
        r == fetch_else_create(st, to_string_key(file_key), "file")
    IN  [key |-> file_key, r |-> r,
         tasks |-> DictSet(tasks, file_key, r.task)]

ResolveFile ==
    /\ pc = "resolve"
    /\ pos.part = "file"
    /\ \E ok \in BOOLEAN :
         IF ok
         THEN LET s == FileStep(task_logs, store, moodle_file_jsons[pos.i]) IN
              /\ FecEffect(s.key, s.r)
              /\ task_logs' = s.tasks
              /\ pos' = AfterFile(pos.i)
              /\ pc' = PcAt(AfterFile(pos.i))
              /\ temp_dir' = DirAt(AfterFile(pos.i), temp_dir)
              /\ UNCHANGED outcome
         ELSE FecFails
    /\ UNCHANGED <<run, moodle_data, filepaths_by_url, content, file_cache, idx,
                   store0, prev, call, returned>>

\* a unit or course item: fetch_else_create, then the two source fragments
SourcedTask(task, moodle_file_json, moodle_course_json) ==
    [task EXCEPT !.moodle_file_json = moodle_file_json,
                 !.moodle_course_json = moodle_course_json]

ResolveUnit ==
    /\ pc = "resolve"
    /\ pos.part = "unit"
    /\ LET moodle_file_json == moodle_file_jsons[pos.i]
           moodle_course_json == moodle_file_json.courses[pos.j]
           unit_key == UnitKey_from_json(moodle_file_json, moodle_course_json)
       IN  IF DictHas(task_logs, unit_key)
           THEN UNCHANGED <<store, calls, fec_log, created, task_logs, pc, outcome,
                             temp_dir>>
                /\ pos' = [pos EXCEPT !.part = "course"]
           ELSE \E ok \in BOOLEAN :
                  IF ok
                  THEN LET r == fetch_else_create(store, to_string_key(unit_key), "unit") IN
                       /\ FecEffect(unit_key, r)
                       /\ task_logs' = DictSet(task_logs, unit_key,
                              SourcedTask(r.task, moodle_file_json, moodle_course_json))
                       /\ pos' = [pos EXCEPT !.part = "course"]
                       /\ UNCHANGED <<pc, outcome, temp_dir>>
                  ELSE FecFails
    /\ UNCHANGED <<run, moodle_data, filepaths_by_url, content, file_cache, idx,
                   store0, prev, call, returned>>

ResolveCourse ==
    /\ pc = "resolve"
    /\ pos.part = "course"
    /\ LET moodle_file_json == moodle_file_jsons[pos.i]
           moodle_course_json == moodle_file_json.courses[pos.j]
           course_key == CourseKey_from_json(moodle_course_json)
       IN  IF DictHas(task_logs, course_key)
           THEN UNCHANGED <<store, calls, fec_log, created, task_logs, outcome>>
                /\ pos' = AfterCourse(pos.i, pos.j)
                /\ pc' = PcAt(AfterCourse(pos.i, pos.j))
                /\ temp_dir' = DirAt(AfterCourse(pos.i, pos.j), temp_dir)
           ELSE \E ok \in BOOLEAN :
                  IF ok
                  THEN LET r == fetch_else_create(store, to_string_key(course_key), "course") IN
                       /\ FecEffect(course_key, r)
                       /\ task_logs' = DictSet(task_logs, course_key,
                              SourcedTask(r.task, moodle_file_json, moodle_course_json))
                       /\ pos' = AfterCourse(pos.i, pos.j)
                       /\ pc' = PcAt(AfterCourse(pos.i, pos.j))
                       /\ temp_dir' = DirAt(AfterCourse(pos.i, pos.j), temp_dir)
                       /\ UNCHANGED outcome
                  ELSE FecFails
    /\ UNCHANGED <<run, moodle_data, filepaths_by_url, content, file_cache, idx,
                   store0, prev, call, returned>>

(***************************************************************************)
(* Linking                                                                 *)
(***************************************************************************)
TaskOf(tasks, key) == tasks[CHOOSE n \in 1..Len(tasks) : tasks[n].key = key].item

link_up(tasks, whole_key, part_key) ==
    LET whole == TaskOf(tasks, whole_key)
        part == TaskOf(tasks, part_key)
        whole2 == [whole EXCEPT !.json = append_relation(whole.json, part.pid, "haspart")]
        part2 == [part EXCEPT !.json = append_relation(part.json, whole.pid, "ispartof")]
    IN  DictSet(DictSet(tasks, whole_key, whole2), part_key, part2)

\* the set the link loop runs over: nothing is ever added to it
links == {}

RECURSIVE LinkAll(_, _)
LinkAll(tasks, todo) ==
    IF todo = {} THEN tasks
    ELSE LET l == CHOOSE x \in todo : TRUE IN
         LinkAll(link_up(tasks, l[1], l[2]), todo \ {l})

LinkRecords ==
    /\ pc = "link"
    /\ task_logs' = LinkAll(task_logs, links)
    /\ pc' = "transform"
    /\ UNCHANGED <<store, run, outcome, moodle_data, filepaths_by_url, content, file_cache,
                   idx, pos, calls, fec_log, created, store0, prev, temp_dir, call, returned>>

(***************************************************************************)
(* The transform dispatch                                                  *)
(***************************************************************************)
\* of update_course_metadata: the identifier and the title (the context, a
\* field of the file json not carried here, is left out)
update_course_metadata(course_item) ==
    LET metadata == IF course_item.json = None THEN LOMCreate("", "") ELSE course_item.json
        course_json == course_item.moodle_course_json
    IN  [course_item EXCEPT !.json =
            set_title(append_identifier(metadata, course_json.courseid, "moodle-id"),
                      course_json.coursename)]

\* of update_unit_metadata: the title (language, description and lecturers,
\* fields of the course json not carried here, are left out)
update_unit_metadata(unit_item) ==
    LET metadata == IF unit_item.json = None THEN LOMCreate("", "") ELSE unit_item.json
        file_json == unit_item.moodle_file_json
        course_json == unit_item.moodle_course_json
    IN  [unit_item EXCEPT !.json =
            set_title(metadata, course_json.coursename \o " (" \o file_json.semester
                                \o " " \o file_json.year \o ")")]

\* the isinstance chain for one (key, item) of task_logs
Dispatch(key, item) ==
    IF key.cls = "UnitKey" THEN [error |-> "", item |-> update_unit_metadata(item)]
    ELSE IF key.cls = "CourseKey" THEN [error |-> "", item |-> update_course_metadata(item)]
    ELSE [error |-> "TypeError", item |-> item]

\* the loop over task_logs.items() from entry n on: stops at the first raise
RECURSIVE TransformFrom(_, _)
TransformFrom(tasks, n) ==
    IF n > Len(tasks) THEN [error |-> "", tasks |-> tasks]
    ELSE LET d == Dispatch(tasks[n].key, tasks[n].item) IN
         IF d.error # "" THEN [error |-> d.error, tasks |-> tasks]
         ELSE TransformFrom([tasks EXCEPT ![n].item = d.item], n + 1)

Transform ==
    /\ pc = "transform"
    /\ LET t == TransformFrom(task_logs, 1) IN
       /\ task_logs' = t.tasks
       /\ IF t.error # ""
          THEN pc' = "failed" /\ outcome' = t.error
          ELSE pc' = "update_drafts" /\ UNCHANGED outcome
    /\ UNCHANGED <<store, run, moodle_data, filepaths_by_url, content, file_cache,
                   idx, pos, calls, fec_log, created, store0, prev, temp_dir, call, returned>>

(***************************************************************************)
(* The commit pipeline                                                     *)
(***************************************************************************)
\* item.previous_json != item.json
Changed(item) == item.previous_json # item.json

\* the items of task_logs.values() that pass the test, in order
RECURSIVE ChangedItems(_)
ChangedItems(tasks) ==
    IF tasks = <<>> THEN <<>>
    ELSE (IF Changed(Head(tasks).item) THEN <<Head(tasks).item>> ELSE <<>>)
         \o ChangedItems(Tail(tasks))

\* the calls of the draft loop: edit, then update_draft, per changed item
RECURSIVE DraftOps(_)
DraftOps(items) ==
    IF items = <<>> THEN <<>>
    ELSE <<[op |-> "edit", pid |-> Head(items).pid, data |-> None],
           [op |-> "update_draft", pid |-> Head(items).pid, data |-> Head(items).json]>>
         \o DraftOps(Tail(items))

\* the calls of the publish loop: one publish per changed item
RECURSIVE PublishOps(_)
PublishOps(items) ==
    IF items = <<>> THEN <<>>
    ELSE <<[op |-> "publish", pid |-> Head(items).pid, data |-> None]>>
         \o PublishOps(Tail(items))

ApplyOp(st, o) ==
    CASE o.op = "edit" -> StoreEdit(st, o.pid)
      [] o.op = "update_draft" -> StoreUpdateDraft(st, o.pid, o.data)
      [] o.op = "publish" -> StorePublish(st, o.pid)

\* the store after the first n calls of ops
RECURSIVE ApplyOps(_, _, _)
ApplyOps(st, ops, n) ==
    IF n = 0 THEN st
    ELSE ApplyOp(ApplyOps(st, ops, n - 1), ops[n])

Logged(ops, n) == [k \in 1..n |-> [op |-> ops[k].op, pid |-> ops[k].pid]]

\* the loop "update drafts": call number failing raises (0: none does)
UpdateDrafts ==
    /\ pc = "update_drafts"
    /\ LET ops == DraftOps(ChangedItems(task_logs)) IN
       \E failing \in 0..Len(ops) :
          IF failing = 0
          THEN /\ store' = ApplyOps(store, ops, Len(ops))
               /\ calls' = calls \o Logged(ops, Len(ops))
               /\ pc' = "publish"
               /\ UNCHANGED outcome
          ELSE /\ store' = ApplyOps(store, ops, failing - 1)
               /\ calls' = calls \o Logged(ops, failing)
               /\ pc' = "failed"
               /\ outcome' = "StoreError"
    /\ UNCHANGED <<run, moodle_data, filepaths_by_url, content, file_cache, idx, pos,
                   task_logs, fec_log, created, store0, prev, temp_dir, call, returned>>

\* what the UnitOfWork block leaves in the store: every publish once
\* uow.commit() has returned, nothing when a publish or the commit raised
UnitOfWorkResult(st, ops, failing) ==
    IF failing = 0 THEN ApplyOps(st, ops, Len(ops)) ELSE st

\* the block "with UnitOfWork() as uow": publish number failing raises
\* (0: none does; Len(ops) + 1: uow.commit() does)
PublishAll ==
    /\ pc = "publish"
    /\ LET ops == PublishOps(ChangedItems(task_logs)) IN
       \E failing \in 0..(Len(ops) + 1) :
          /\ store' = UnitOfWorkResult(store, ops, failing)
          /\ IF failing = 0
             THEN /\ calls' = calls \o Logged(ops, Len(ops))
                                    \o <<[op |-> "commit", pid |-> 0]>>
                  /\ pc' = "done"
                  /\ outcome' = "ok"
             ELSE /\ calls' = calls \o Logged(ops, IF failing > Len(ops) THEN Len(ops) ELSE failing)
                                    \o (IF failing > Len(ops)
                                        THEN <<[op |-> "commit", pid |-> 0]>> ELSE <<>>)
                                    \o <<[op |-> "rollback", pid |-> 0]>>
                  /\ pc' = "failed"
                  /\ outcome' = "StoreError"
    /\ UNCHANGED <<run, moodle_data, filepaths_by_url, content, file_cache, idx, pos,
                   task_logs, fec_log, created, store0, prev, temp_dir, call, returned>>

(***************************************************************************)
(* The specification                                                       *)
(***************************************************************************)
Next ==
    \/ StartRun
    \/ Validate
    \/ CacheProvided
    \/ CacheDownload
    \/ CacheReturn
    \/ ResolveFile
    \/ ResolveUnit
    \/ ResolveCourse
    \/ LinkRecords
    \/ Transform
    \/ UpdateDrafts
    \/ PublishAll

Spec == Init /\ [][Next]_vars

(***************************************************************************)
(* update_file_metadata                                                    *)
(***************************************************************************)
\* classification identifiers, listed in ascending str order
OefosTable == <<"10", "1010", "101001", "1020">>
OefosIds == {OefosTable[n] : n \in 1..Len(OefosTable)}
\* a < b on str
StrLess(a, b) ==
    (CHOOSE n \in 1..Len(OefosTable) : OefosTable[n] = a)
        < (CHOOSE n \in 1..Len(OefosTable) : OefosTable[n] = b)

MaxGroups == 2
MaxValues == 2
ResourceTypes == {"No selection", "Presentationslide", "Video"}
Titles == {"", "Slides"}
ClassificationJsons == [values : SeqsUpTo([identifier : OefosIds], MaxValues)]
\* the fields of a file json that update_file_metadata's modelled steps read
FileMetadataJsons ==
    [title : Titles, language : {"en"}, resourcetype : ResourceTypes,
     license : [source : {"https://creativecommons.org/licenses/by/4.0/"}],
     classification : SeqsUpTo(ClassificationJsons, MaxGroups)]

\* LOMMetadata(json or {}, overwritable=True): the fields the transform fills
LOMMetadata(json) ==
    (IF json = None THEN LOMCreate("", "") ELSE json)
        @@ [languages |-> <<>>, learningresourcetypes |-> <<>>, rights_url |-> "",
            oefos |-> <<>>]
append_language(json, language) == [json EXCEPT !.languages = Append(@, language)]
append_learningresourcetype(json, term) ==
    [json EXCEPT !.learningresourcetypes = Append(@, term)]
set_rights_url(json, url) == [json EXCEPT !.rights_url = url]
\* one append_oefos_id call, kept in call order
append_oefos_id(json, id_, language_code) ==
    [json EXCEPT !.oefos = Append(@, <<id_, language_code>>)]

\* the dict of update_file_metadata; <<>> stands for None
learningresourcetype_by_resourcetype ==
    [resourcetype \in {"No selection", "Presentationslide"} |->
        IF resourcetype = "Presentationslide" THEN <<"slide">> ELSE <<>>]

\* the list comprehension: the identifiers of all values of all groups
RECURSIVE Identifiers(_)
Identifiers(values) ==
    IF values = <<>> THEN <<>>
    ELSE <<Head(values).identifier>> \o Identifiers(Tail(values))
RECURSIVE Flatten(_)
Flatten(classification) ==
    IF classification = <<>> THEN <<>>
    ELSE Identifiers(Head(classification).values) \o Flatten(Tail(classification))

\* (-len(a), a) <= (-len(b), b): the order of the sort key
SortKeyLE(a, b) == Len(a) > Len(b) \/ (Len(a) = Len(b) /\ (a = b \/ StrLess(a, b)))

\* list.sort(key=...): stable, ascending in the key
RECURSIVE Insert(_, _)
Insert(sorted, x) ==
    IF sorted = <<>> THEN <<x>>
    ELSE IF SortKeyLE(Head(sorted), x) THEN <<Head(sorted)>> \o Insert(Tail(sorted), x)
    ELSE <<x>> \o sorted
RECURSIVE Sort(_)
Sort(ids) ==
    IF ids = <<>> THEN <<>>
    ELSE Insert(Sort(SubSeq(ids, 1, Len(ids) - 1)), ids[Len(ids)])

\* the loop over oefos_ids: each id untagged, then tagged "en"
RECURSIVE AppendOefos(_, _)
AppendOefos(json, oefos_ids) ==
    IF oefos_ids = <<>> THEN json
    ELSE AppendOefos(
            append_oefos_id(append_oefos_id(json, Head(oefos_ids), ""),
                            Head(oefos_ids), "en"),
            Tail(oefos_ids))

\* of update_file_metadata: title, language, resource type, license and
\* classification (abstract, tags, persons, release time, mimetype and size,
\* fields not carried here, are left out).  The result is the item, or the
\* exception raised with the item as it was: file_json["language"] raises
\* TypeError on an item that carries no file json.
update_file_metadata(file_item) ==
    IF file_item.moodle_file_json = None THEN [error |-> "TypeError", item |-> file_item]
    ELSE
    LET file_json == file_item.moodle_file_json
        language == file_json.language
        m1 == IF file_json.title # "" THEN set_title(LOMMetadata(file_item.json), file_json.title)
              ELSE LOMMetadata(file_item.json)
        m2 == append_language(m1, language)
        resourcetype == file_json.resourcetype
    IN  IF resourcetype \notin DOMAIN learningresourcetype_by_resourcetype
        THEN [error |-> "KeyError", item |-> file_item]
        ELSE LET learningresourcetype == learningresourcetype_by_resourcetype[resourcetype]
                 m3 == IF learningresourcetype # <<>>
                       THEN append_learningresourcetype(m2, learningresourcetype[1])
                       ELSE m2
                 m4 == set_rights_url(m3, file_json.license.source)
                 oefos_ids == Sort(Flatten(file_json.classification))
                 m5 == AppendOefos(m4, oefos_ids)
                 m6 == append_oefos_id(append_oefos_id(append_oefos_id(m5,
                            "1010", ""), "101001", ""), "1010", "")
             IN  [error |-> "", item |-> [file_item EXCEPT !.json = m6]]

(***************************************************************************)
(* The functions called on their own                                       *)
(***************************************************************************)
\* field values of course and unit jsons: any str passes the schema
CourseIdStrings == {"101", "101, year=2022"}
YearStrings == {"2022", "2022, year=2022"}
KeyInputs ==
    {CourseKey(c) : c \in CourseIdStrings}
    \cup {UnitKey(c, y, s) : c \in CourseIdStrings, y \in YearStrings, s \in {"WS"}}
    \cup {FileKey(HashStr(b), u) : b \in Bytes, u \in Urls}

\* TaskLog(pid=..., previous_json=None, json=..., moodle_file_json=file_json):
\* an argument of update_file_metadata.  With file_json None it is the Task
\* the resolve loop leaves under a FileKey, which sets no file json on it.
FileItem(file_json) ==
    [fetch_else_create(<<>>, "FileKey(hash_md5=" \o HexDigest("a") \o ")", "file").task
        EXCEPT !.moodle_file_json = file_json]

runVars == <<store, run, pc, outcome, moodle_data, filepaths_by_url, content,
             file_cache, idx, pos, task_logs, calls, fec_log, created, store0, prev,
             temp_dir>>

\* no call of insert_moodle_into_db is under way; one function call is made
InitFunctions == Init /\ moodle_data = InvalidDoc

Call_to_string_key ==
    /\ call = None
    /\ \E k1, k2 \in KeyInputs :
          /\ call' = [fn |-> "to_string_key", args |-> <<k1, k2>>]
          /\ returned' = <<to_string_key(k1), to_string_key(k2)>>
    /\ UNCHANGED runVars

Call_update_file_metadata ==
    /\ call = None
    /\ \E file_json \in FileMetadataJsons \cup {None} :
          /\ call' = [fn |-> "update_file_metadata", args |-> <<FileItem(file_json)>>]
          /\ returned' = update_file_metadata(FileItem(file_json))
    /\ UNCHANGED runVars

NextFunctions ==
    \/ Call_to_string_key
    \/ Call_update_file_metadata

FunctionSpec == InitFunctions /\ [][NextFunctions]_vars

(***************************************************************************)
(* Properties                                                              *)
(***************************************************************************)
CountOps(ops, name) == Cardinality({k \in 1..Len(ops) : ops[k].op = name})
\* a registry, store or transport call failed in a call that ended with o
Injected(o) == o \in {"StoreError", "RequestException"}
\* the current call repeats the previous one: same batch, override and bytes
SameInputs ==
    /\ prev # None
    /\ prev.filepaths_by_url = filepaths_by_url
    /\ prev.content = content
IsFileKey(n) == task_logs[n].key.cls = "FileKey"

\* C1: the store never holds two entities created for the same course, the
\* same unit or the same file content, over all runs.
C1_NoDuplicateEntity ==
    \A p, q \in 1..Len(created) : p # q => created[p] # created[q]

\* C3: a second run on the same batch, override and bytes, after a first run in
\* which no collaborator call failed, holds no changed Task and issues no
\* edit, update_draft or publish.
C3_IdempotentRerun ==
    (run = 2 /\ SameInputs /\ ~Injected(prev.outcome))
        => /\ \A n \in 1..Len(task_logs) : ~Changed(task_logs[n].item)
           /\ \A k \in 1..Len(calls) : calls[k].op \notin {"edit", "update_draft", "publish"}

\* C4: within a run two file Keys of the task mapping whose bytes are identical
\* are one Key (one Task), and a reference that resolved to other bytes than in
\* the previous run has another FileKey than it had there.
C4_FileDedup ==
    /\ \A n, m \in 1..Len(task_logs) :
          (IsFileKey(n) /\ IsFileKey(m)
             /\ task_logs[n].key.hash_md5.digest = task_logs[m].key.hash_md5.digest)
          => n = m
    /\ prev # None =>
          \A u \in DOMAIN file_cache \cap DOMAIN prev.file_cache :
             prev.content[u] # content[u]
             => FileKey(file_cache[u].hash_md5, u) # FileKey(prev.file_cache[u].hash_md5, u)

\* C5: every Key of the task mapping was resolved by exactly one
\* fetch_else_create call of the run, and its Task still carries the pid and the
\* previous document that call returned.
C5_OneTaskPerKey ==
    \A n \in 1..Len(task_logs) :
       LET made == {m \in 1..Len(fec_log) : fec_log[m].key = task_logs[n].key} IN
       /\ Cardinality(made) = 1
       /\ \A m \in made :
             /\ task_logs[n].item.pid = fec_log[m].task.pid
             /\ task_logs[n].item.previous_json = fec_log[m].task.previous_json

\* C6: a fetch_else_create call on a key absent from the registry issues one
\* create and no read and returns a null previous document; on a key present it
\* issues no create and one read and returns the representation read as both
\* the previous and the candidate document.
C6_FetchElseCreate ==
    \A n \in 1..Len(fec_log) :
       LET e == fec_log[n] IN
       IF ~e.present
       THEN /\ CountOps(e.ops, "create") = 1
            /\ CountOps(e.ops, "read") = 0
            /\ e.task.previous_json = None
       ELSE /\ CountOps(e.ops, "create") = 0
            /\ CountOps(e.ops, "read") = 1
            /\ e.task.previous_json = StoreRead(store, e.task.pid)
            /\ e.task.json = e.task.previous_json

\* a run in which one call found its key absent and another found its key present
C6_Witness ==
    /\ \E n \in 1..Len(fec_log) : ~fec_log[n].present
    /\ \E n \in 1..Len(fec_log) : fec_log[n].present /\ fec_log[n].task.previous_json # None

\* The draft loop and the publish scope are only ever entered with an empty
\* task mapping: with a Task in it the transform dispatch has raised before.
CommitReachedOnlyWithoutTasks ==
    pc \in {"update_drafts", "publish", "done"} => task_logs = <<>>

\* C8: a run over a validated batch, with an override given, in which no
\* collaborator call fails ends normally with every changed Task published.
C8_NormalTermination ==
    (Ended /\ moodle_data.valid /\ filepaths_by_url # None /\ ~Injected(outcome))
        => /\ outcome = "ok"
           /\ \A n \in 1..Len(task_logs) :
                 Changed(task_logs[n].item)
                 => store[task_logs[n].item.pid].published = task_logs[n].item.json

\* C9: no run raises the TypeError of the transform dispatch.
C9_NoTypeError == outcome # "TypeError"

\* A call that fails in its publish scope (the commit raised and the scope was
\* rolled back) has written no draft: it holds no Task, has issued no create,
\* edit, update_draft or publish, and leaves the store as it found it.
PublishFailureWritesNoDraft ==
    (pc = "failed" /\ \E k \in 1..Len(calls) : calls[k].op = "rollback")
        => /\ task_logs = <<>>
           /\ store = store0
           /\ \A k \in 1..Len(calls) :
                 calls[k].op \notin {"create", "edit", "update_draft", "publish"}

\* the file of url u in the cache was downloaded into the temporary directory
Downloaded(u) == file_cache[u].hash_md5.kind = "HASH"

\* C11: a call on a batch that fails validation ends with the validation
\* error, having issued no registry lookup, create, read, edit, update_draft,
\* publish or download, and with the store as it was.
C11_ValidationFirst ==
    (~moodle_data.valid /\ pc \notin {"idle", "validate"})
        => /\ pc = "failed"
           /\ outcome = "ValidationError"
           /\ calls = <<>>
           /\ fec_log = <<>>
           /\ file_cache = <<>>
           /\ store = store0

\* a rejected batch that names a file, rejected again by a second call
C11_Witness ==
    /\ outcome = "ValidationError"
    /\ moodle_data.files # <<>>
    /\ run = 2

\* C12: when a fetch_else_create call has been issued, every file reference of
\* the batch has its entry in the file cache; a call that ends with a transport
\* error has issued no fetch_else_create call and left the store as it was.
C12_CacheBeforeResolution ==
    /\ fec_log # <<>> => \A k \in 1..Len(urls) : urls[k] \in DOMAIN file_cache
    /\ outcome = "RequestException"
          => /\ fec_log = <<>>
             /\ store = store0
             /\ \A k \in 1..Len(calls) : calls[k].op = "get"

\* a download fails after another reference was cached, on a store that holds
\* the entities of an earlier call
C12_Witness ==
    /\ outcome = "RequestException"
    /\ file_cache # <<>>
    /\ store # <<>>

\* C13: a call without the override does not fail on the missing override;
\* with the override given, once cache_files has returned every reference of
\* the batch has a cache entry, downloaded exactly when the override does not
\* hold it.
C13_OverrideOptional ==
    /\ filepaths_by_url = None => outcome # "AttributeError"
    /\ (filepaths_by_url # None /\ pc \in {"resolve", "link", "transform"})
          => /\ \A k \in 1..Len(urls) : urls[k] \in DOMAIN file_cache
             /\ \A u \in DOMAIN file_cache : Downloaded(u) <=> u \notin filepaths_by_url.urls

\* C14: after the link stage, for every (course, unit) pair of the batch the
\* course Task's document holds "haspart" to the unit's pid and the unit Task's
\* document holds "ispartof" to the course's pid.
C14_CourseUnitLinked ==
    pc = "transform" =>
        \A i \in 1..Len(moodle_file_jsons) :
           \A j \in 1..Len(moodle_file_jsons[i].courses) :
              LET unit == TaskOf(task_logs,
                      UnitKey_from_json(moodle_file_jsons[i], moodle_file_jsons[i].courses[j]))
                  course == TaskOf(task_logs,
                      CourseKey_from_json(moodle_file_jsons[i].courses[j]))
              IN  /\ <<"haspart", unit.pid>> \in course.json.relations
                  /\ <<"ispartof", course.pid>> \in unit.json.relations

\* C15: in every terminal state of a call the temporary directory does not
\* exist, and it exists only while cache_files or the resolve loop runs.
C15_TempDirReleased ==
    /\ Ended => temp_dir = None
    /\ temp_dir # None => pc \in {"cache_download", "resolve"}

\* a call that downloaded a file and then failed in the resolve loop
C15_Witness ==
    /\ pc = "failed"
    /\ outcome = "StoreError"
    /\ \E u \in DOMAIN file_cache : Downloaded(u)

\* C20: while a call runs, the path the file cache records for a downloaded
\* reference names a file of the temporary directory.
C20_DownloadsKept ==
    pc \in {"cache_download", "resolve", "link", "transform", "update_drafts", "publish"}
        => \A u \in DOMAIN file_cache :
              Downloaded(u) => (temp_dir # None /\ file_cache[u].path \in temp_dir.files)

Called(fn) == call # None /\ call.fn = fn

\* x is appended no later than y: shorter first, ties in ascending str order
LessSpecificFirst(x, y) == Len(x) < Len(y) \/ (Len(x) = Len(y) /\ (x = y \/ StrLess(x, y)))

\* C16: update_file_metadata appends the identifiers flattened from the
\* classification groups with shorter codes before longer ones, ties in
\* ascending lexicographic order; [1010, 10, 101001] is appended as 10, 1010,
\* 101001.
C16_ClassificationOrder ==
    (Called("update_file_metadata") /\ returned.error = "")
        => LET oefos == returned.item.json.oefos
               n == Len(Flatten(call.args[1].moodle_file_json.classification))
           IN  \A a, b \in 1..(2 * n) : a < b => LessSpecificFirst(oefos[a][1], oefos[b][1])

\* C17: update_file_metadata, on an item that carries a file json, raises no
\* error whatever the resource type; a type the table maps to a term has that
\* term appended, any other type has none, and the license, set after the
\* resource type, is set.
C17_ResourceTypeLookup ==
    (Called("update_file_metadata") /\ call.args[1].moodle_file_json # None)
        => LET resourcetype == call.args[1].moodle_file_json.resourcetype IN
           /\ returned.error = ""
           /\ returned.item.json.learningresourcetypes =
                 (IF resourcetype = "Presentationslide" THEN <<"slide">> ELSE <<>>)
           /\ returned.item.json.rights_url = call.args[1].moodle_file_json.license.source

\* C19: two keys with the same canonical string denote the same entity.
C19_UniqueStringKey ==
    Called("to_string_key")
        => (returned[1] = returned[2] => EntityOf(call.args[1]) = EntityOf(call.args[2]))

\* C21: within one run no two Tasks of the task mapping carry the same pid, and
\* no pid has more than one update_draft or more than one publish issued.
C21_NoPidTwice ==
    /\ \A n, m \in 1..Len(task_logs) :
          task_logs[n].item.pid = task_logs[m].item.pid => n = m
    /\ \A k, l \in 1..Len(calls) :
          (calls[k].op \in {"update_draft", "publish"} /\ calls[k].op = calls[l].op
             /\ calls[k].pid = calls[l].pid) => k = l

====
